---- MODULE Spec2Model ----
(***************************************************************************)
(* Model of tom_targets/models.py: the Target record, its as_dict          *)
(* projection, get_object_instance_for_type and get_visibility.            *)
(*                                                                         *)
(* Python values are carried as tagged records so that values of different *)
(* Python types can be compared: None is [kind |-> "None"], a float is     *)
(* [kind |-> "float", v |-> n], a str is [kind |-> "str", s |-> "..."].     *)
(* Times are whole minutes; timedelta(minutes=i) is the integer i.         *)
(***************************************************************************)
EXTENDS Integers, Sequences, FiniteSets, TLC

(***************************************************************************)
(* Bounds of the model.                                                    *)
(***************************************************************************)
MaxInterval == 3
MaxStart == 1
MaxSites == 1

(***************************************************************************)
(* Python values.                                                          *)
(***************************************************************************)
PyNone == [kind |-> "None"]
PyFloat(n) == [kind |-> "float", v |-> n]
PyStr(x) == [kind |-> "str", s |-> x]
PyInt(n) == [kind |-> "int", v |-> n]
PyList(xs) == [kind |-> "list", items |-> xs]
PyDict(items) == [kind |-> "dict", items |-> items]
PyError(name) == [kind |-> "exception", name |-> name]
Unbound == [kind |-> "unbound"]

Range(seq) == {seq[i] : i \in DOMAIN seq}

(***************************************************************************)
(* Module-level field lists, models.py lines 14-26.                        *)
(***************************************************************************)
GLOBAL_TARGET_FIELDS == <<"identifier", "name", "designation", "type">>

SIDEREAL_FIELDS ==
    GLOBAL_TARGET_FIELDS \o
    <<"ra", "dec", "epoch", "pm_ra", "pm_dec",
      "galactic_lng", "galactic_lat", "distance", "distance_err">>

NON_SIDEREAL_FIELDS ==
    GLOBAL_TARGET_FIELDS \o
    <<"mean_anomaly", "arg_of_perihelion",
      "lng_asc_node", "inclination", "mean_daily_motion", "semimajor_axis",
      "ephemeris_period", "ephemeris_period_err", "ephemeris_epoch",
      "ephemeris_epoch_err">>

SIDEREAL == "SIDEREAL"
NON_SIDEREAL == "NON_SIDEREAL"

(***************************************************************************)
(* The fields of the Target model in declaration order (lines 34-60); the  *)
(* ORM puts the implicit primary key "id" first.  The two timestamp fields *)
(* (auto_now_add / auto_now) are the non-editable ones.                    *)
(***************************************************************************)
IdentityFieldsDeclared == <<"identifier", "name", "type", "designation">>

TimestampFields == <<"created", "modified">>

SiderealParameterFields ==
    <<"ra", "dec", "epoch", "parallax", "pm_ra", "pm_dec",
      "galactic_lng", "galactic_lat", "distance", "distance_err">>

NonSiderealParameterFields ==
    <<"mean_anomaly", "arg_of_perihelion", "eccentricity", "lng_asc_node",
      "inclination", "mean_daily_motion", "semimajor_axis",
      "ephemeris_period", "ephemeris_period_err", "ephemeris_epoch",
      "ephemeris_epoch_err">>

ConcreteFields ==
    <<"id">> \o IdentityFieldsDeclared \o TimestampFields
             \o SiderealParameterFields \o NonSiderealParameterFields

Editable(f) == f \notin Range(TimestampFields)

IndexOf(seq, x) == CHOOSE i \in DOMAIN seq : seq[i] = x

(***************************************************************************)
(* Target.as_dict, lines 71-79.  FieldsForType is the if/elif/else that    *)
(* picks fields_for_type; ModelToDict is django.forms.models.model_to_dict *)
(* as line 79 calls it: it walks the model's concrete fields in            *)
(* declaration order, skips the non-editable ones and those not named in   *)
(* `fields`, and inserts name -> value into a dict, which keeps insertion  *)
(* order.  The dict is the sequence of its <<key, value>> items.           *)
(***************************************************************************)
\* A variant with the two typed branches exchanged.
FieldsForTypeSwapped(type) ==
    IF type = PyStr(SIDEREAL) THEN NON_SIDEREAL_FIELDS
    ELSE IF type = PyStr(NON_SIDEREAL) THEN SIDEREAL_FIELDS
    ELSE GLOBAL_TARGET_FIELDS

FieldsForType(type) ==
    IF type = PyStr(SIDEREAL) THEN SIDEREAL_FIELDS
    ELSE IF type = PyStr(NON_SIDEREAL) THEN NON_SIDEREAL_FIELDS
    ELSE GLOBAL_TARGET_FIELDS

RECURSIVE ModelToDictFrom(_, _, _)
ModelToDictFrom(instance, fields, i) ==
    IF i > Len(ConcreteFields) THEN <<>>
    ELSE LET f == ConcreteFields[i]
         IN  IF Editable(f) /\ f \in Range(fields)
             THEN <<  <<f, instance[f]>>  >> \o ModelToDictFrom(instance, fields, i + 1)
             ELSE ModelToDictFrom(instance, fields, i + 1)

\* A variant that leaves out the fields whose value is None.
ModelToDictSkippingNone(instance, fields) ==
    SelectSeq(ModelToDictFrom(instance, fields, 1), LAMBDA item : item[2] # PyNone)

ModelToDict(instance, fields) == ModelToDictFrom(instance, fields, 1)

AsDict(self) == ModelToDict(self, FieldsForType(self.type))

Keys(d) == [i \in DOMAIN d |-> d[i][1]]

(***************************************************************************)
(* Target records.  A record maps every concrete field to its value.  The  *)
(* nullable float fields (lines 40-60) are either all unset (None) or all  *)
(* set; a set field holds its position in the declaration as its value, so *)
(* that different fields hold different values.                            *)
(***************************************************************************)
OtherType == "UNKNOWN"
TypeValues == {SIDEREAL, NON_SIDEREAL, OtherType}

MakeTarget(type, filled) ==
    [f \in Range(ConcreteFields) |->
        CASE f = "id" -> PyInt(1)
          [] f = "identifier" -> PyStr("Kelt-16b")
          [] f = "name" -> PyStr("")
          [] f = "type" -> PyStr(type)
          [] f = "designation" -> PyStr("")
          [] f \in Range(TimestampFields) -> PyInt(0)
          [] OTHER -> IF filled THEN PyFloat(IndexOf(ConcreteFields, f)) ELSE PyNone]

Targets == {MakeTarget(t, b) : t \in TypeValues, b \in BOOLEAN}

(***************************************************************************)
(* The facility registry read at lines 98-99: an ordered mapping of        *)
(* facility -> (ordered mapping of site name -> {latitude, longitude}).    *)
(***************************************************************************)
FacilityNames == <<"LCO", "Gemini">>

MakeSite(i, j) ==
    [facility |-> FacilityNames[i], site |-> j,
     latitude |-> 10 * i + j, longitude |-> 0 - (20 * i + j)]

MakeRegistry(counts) ==
    [i \in DOMAIN counts |-> [j \in 1..counts[i] |-> MakeSite(i, j)]]

\* Every registry of a prefix of FacilityNames with 0..MaxSites sites each.
Registries ==
    {MakeRegistry(c) :
        c \in UNION {[1..n -> 0..MaxSites] : n \in 0..Len(FacilityNames)}}

RECURSIVE SitesFrom(_, _)
SitesFrom(reg, i) ==
    IF i > Len(reg) THEN <<>> ELSE reg[i] \o SitesFrom(reg, i + 1)

\* The (facility, site) pairs in the order the nested loops of lines 98-100
\* visit them.
AllSites(reg) == SitesFrom(reg, 1)

(***************************************************************************)
(* Target.get_object_instance_for_type, lines 81-93.  The conditions read  *)
(* the name `type`, which in the method's scope is Python's builtin class  *)
(* `type`, not self.type; a method that falls off its end returns None.    *)
(***************************************************************************)
BuiltinType == [kind |-> "class", name |-> "type"]

Star(ra_hours, dec_degrees, ra_mas_per_year, dec_mas_per_year, epoch, parallax_mas) ==
    [kind |-> "Star", ra_hours |-> ra_hours, dec_degrees |-> dec_degrees,
     ra_mas_per_year |-> ra_mas_per_year, dec_mas_per_year |-> dec_mas_per_year,
     epoch |-> epoch, parallax_mas |-> parallax_mas]

OsculatingElements(eccentricity, inclination, longitude_of_ascending_node) ==
    [kind |-> "OsculatingElements", eccentricity |-> eccentricity,
     inclination |-> inclination,
     longitude_of_ascending_node |-> longitude_of_ascending_node]

GetObjectInstanceForType(self) ==
    IF BuiltinType = PyStr(SIDEREAL)
    THEN Star(self.ra, self.dec, self.pm_ra, self.pm_dec, self.epoch, self.parallax)
    ELSE IF BuiltinType = PyStr(NON_SIDEREAL)
    THEN OsculatingElements(self.eccentricity, self.inclination, self.lng_asc_node)
    ELSE PyNone

(***************************************************************************)
(* Line 107: the sample times.  PyRange is Python's range(start, stop,     *)
(* step) for step # 0 (range raises ValueError for step = 0).              *)
(***************************************************************************)
WindowMinutes == 60

RECURSIVE PyRange(_, _, _)
PyRange(start, stop, step) ==
    IF (step > 0 /\ start < stop) \/ (step < 0 /\ start > stop)
    THEN <<start>> \o PyRange(start + step, stop, step)
    ELSE <<>>

\* A variant whose range includes the end of the hour.
TimeRangeInclusive(start_time, interval) ==
    LET r == PyRange(0, WindowMinutes + 1, interval)
    IN  [k \in DOMAIN r |-> start_time + r[k]]

TimeRange(start_time, interval) ==
    LET r == PyRange(0, WindowMinutes, interval)
    IN  [k \in DOMAIN r |-> start_time + r[k]]

(***************************************************************************)
(* Lines 108-110: the position of target_object seen from the site at the  *)
(* sample times, as computed by the ephemeris library from a fixed         *)
(* ephemeris file.  The numbers are left symbolic: a function of the site  *)
(* coordinates, the target model and the time.                             *)
(***************************************************************************)
AltAz(site, target_object, t) ==
    LET at == <<site.latitude, site.longitude, target_object, t>>
    IN  [alt |-> <<"alt", at>>, az |-> <<"az", at>>, distance |-> <<"distance", at>>]

Observe(site, target_object, time_range) ==
    [k \in DOMAIN time_range |-> AltAz(site, target_object, time_range[k])]

(***************************************************************************)
(* State.                                                                  *)
(*   target, registry : the Target record and the facility registry        *)
(*   pc               : "idle", or where the last get_visibility call is:  *)
(*                      "running", "returned" or "raised"                  *)
(*   args             : the arguments of that call                         *)
(*   pending          : the sites its loops have not visited yet           *)
(*   target_object, time_range : its locals of lines 106-107               *)
(*   printed          : what it has printed, one entry per site            *)
(*   result           : the value it returned or the exception it raised   *)
(*   prev             : the outcome of the call before it, when that call  *)
(*                      had the same arguments                             *)
(*   dict_result, instance : what the last as_dict and                     *)
(*                      get_object_instance_for_type calls returned        *)
(***************************************************************************)
VARIABLES target, registry, pc, args, pending, target_object, time_range,
          printed, result, prev, dict_result, instance

vars == <<target, registry, pc, args, pending, target_object, time_range,
          printed, result, prev, dict_result, instance>>

\* The arguments tried: start times in minutes; an end time before, and one
\* well after, the sampled hour; the intervals around zero, the two the
\* specification names (10 and 15), and two that reach past the hour.
StartTimes == 0..MaxStart
EndTimes == {0, 2 * WindowMinutes}
Intervals == ((0 - 1)..MaxInterval) \cup {10, 15, WindowMinutes, WindowMinutes + 1}

NoArgs == [kind |-> "no call"]
NoCall == [kind |-> "no call"]

Finished == pc \in {"returned", "raised"}

Outcome == [status |-> pc, result |-> result, printed |-> printed]

Init ==
    /\ target \in Targets
    /\ registry \in Registries
    /\ pc = "idle"
    /\ args = NoArgs
    /\ pending = <<>>
    /\ target_object = Unbound
    /\ time_range = Unbound
    /\ printed = <<>>
    /\ result = Unbound
    /\ prev = NoCall
    /\ dict_result = Unbound
    /\ instance = Unbound

\* as_dict(), lines 71-79.
AsDictCall ==
    /\ pc # "running"
    /\ dict_result' = PyDict(AsDict(target))
    /\ UNCHANGED <<target, registry, pc, args, pending, target_object,
                   time_range, printed, result, prev, instance>>

\* get_object_instance_for_type(), lines 81-93.
GetObjectInstanceCall ==
    /\ pc # "running"
    /\ instance' = GetObjectInstanceForType(target)
    /\ UNCHANGED <<target, registry, pc, args, pending, target_object,
                   time_range, printed, result, prev, dict_result>>

\* get_visibility(start_time, end_time, interval) is entered: lines 95-99,
\* up to the first site of the loops.
GetVisibilityCall(start_time, end_time, interval) ==
    LET a == [start_time |-> start_time, end_time |-> end_time, interval |-> interval]
    IN  /\ pc # "running"
        /\ prev' = IF Finished /\ args = a THEN Outcome ELSE NoCall
        /\ args' = a
        /\ pc' = "running"
        /\ pending' = AllSites(registry)
        /\ target_object' = Unbound
        /\ time_range' = Unbound
        /\ printed' = <<>>
        /\ result' = Unbound
        /\ UNCHANGED <<target, registry, dict_result, instance>>

\* A variant of the loop body that takes each site out of the registry as it
\* visits it.
VisitSiteConsuming ==
    /\ pc = "running"
    /\ pending # <<>>
    /\ LET site == Head(pending)
           obj == GetObjectInstanceForType(target)
           tr == TimeRange(args.start_time, args.interval)
       IN  /\ target_object' = obj
           /\ registry' = [registry EXCEPT
                              ![IndexOf(FacilityNames, site.facility)] = Tail(@)]
           /\ IF args.interval = 0 \/ tr = <<>> \/ obj = PyNone
              THEN /\ pc' = "raised"
                   /\ result' = PyError(IF args.interval = 0 THEN "ValueError"
                                        ELSE IF tr = <<>> THEN "IndexError"
                                        ELSE "AttributeError")
                   /\ time_range' = IF args.interval # 0 /\ tr # <<>>
                                    THEN PyList(tr) ELSE time_range
                   /\ UNCHANGED <<printed, pending>>
              ELSE /\ time_range' = PyList(tr)
                   /\ printed' = Append(printed,
                          [facility |-> site.facility, site |-> site.site,
                           rows |-> Observe(site, obj, tr)])
                   /\ pending' = Tail(pending)
                   /\ UNCHANGED <<pc, result>>
    /\ UNCHANGED <<target, args, prev, dict_result, instance>>

\* One pass through the loop body, lines 100-114, for the next site.
\* range() raises ValueError for a zero step; ts.utc indexes element 0 of
\* the list it is given, an IndexError for the empty list; observe() on
\* None is an AttributeError.
VisitSite ==
    /\ pc = "running"
    /\ pending # <<>>
    /\ LET site == Head(pending)
           obj == GetObjectInstanceForType(target)
       IN  /\ target_object' = obj
           /\ IF args.interval = 0
              THEN /\ pc' = "raised"
                   /\ result' = PyError("ValueError")
                   /\ UNCHANGED <<time_range, printed, pending>>
              ELSE LET tr == TimeRange(args.start_time, args.interval)
                   IN  IF tr = <<>>
                       THEN /\ pc' = "raised"
                            /\ result' = PyError("IndexError")
                            /\ UNCHANGED <<time_range, printed, pending>>
                       ELSE /\ time_range' = PyList(tr)
                            /\ IF obj = PyNone
                               THEN /\ pc' = "raised"
                                    /\ result' = PyError("AttributeError")
                                    /\ UNCHANGED <<printed, pending>>
                               ELSE /\ printed' = Append(printed,
                                           [facility |-> site.facility,
                                            site |-> site.site,
                                            rows |-> Observe(site, obj, tr)])
                                    /\ pending' = Tail(pending)
                                    /\ UNCHANGED <<pc, result>>
    /\ UNCHANGED <<target, registry, args, prev, dict_result, instance>>

\* The loops are exhausted: line 115, and the method returns None.
Return ==
    /\ pc = "running"
    /\ pending = <<>>
    /\ pc' = "returned"
    /\ result' = PyNone
    /\ UNCHANGED <<target, registry, args, pending, target_object, time_range,
                   printed, prev, dict_result, instance>>

Next ==
    \/ AsDictCall
    \/ GetObjectInstanceCall
    \/ \E s \in StartTimes, e \in EndTimes, i \in Intervals : GetVisibilityCall(s, e, i)
    \/ VisitSite
    \/ Return

Spec == Init /\ [][Next]_vars

(***************************************************************************)
(* Properties.                                                             *)
(***************************************************************************)
NumSamples(interval) ==
    Cardinality({k \in 0..(WindowMinutes - 1) : k * interval < WindowMinutes})

ExpectedSamples(start_time, interval) ==
    [k \in 1..NumSamples(interval) |-> start_time + (k - 1) * interval]

SupportedType == target.type \in {PyStr(SIDEREAL), PyStr(NON_SIDEREAL)}

RECURSIVE CountRows(_, _)
CountRows(out, i) ==
    IF i > Len(out) THEN 0 ELSE Len(out[i].rows) + CountRows(out, i + 1)

\* C1: with a positive interval, the sample times that get_visibility
\* builds for a site are exactly start_time + k*interval for the k >= 0 with
\* k*interval < 60, whatever end_time is: 6 samples for interval 10, 4 for
\* interval 15.
C1_TimeSamples ==
    (time_range.kind = "list" /\ args.interval > 0) =>
        /\ time_range.items = ExpectedSamples(args.start_time, args.interval)
        /\ (args.interval = 10 => Len(time_range.items) = 6)
        /\ (args.interval = 15 => Len(time_range.items) = 4)

C1_Witness ==
    /\ time_range.kind = "list"
    /\ args.interval = 10
    /\ args.end_time < args.start_time
    /\ Len(time_range.items) = 6

\* C2: a call of get_visibility that completes returns a structure with one
\* (altitude, azimuth, distance) triple per registered site per time sample.
C2_ReturnsStructuredData ==
    pc = "returned" =>
        /\ result.kind = "list"
        /\ Len(result.items) =
              Len(AllSites(registry)) * Len(TimeRange(args.start_time, args.interval))

\* C3: get_visibility on a target whose type is neither SIDEREAL nor
\* NON_SIDEREAL fails with an "unsupported target type" error, and has
\* printed nothing by then.
C3_UnsupportedTypeFails ==
    (Finished /\ ~SupportedType) =>
        /\ pc = "raised"
        /\ result = PyError("unsupported target type")
        /\ printed = <<>>

\* C4: get_object_instance_for_type returns the star model for a SIDEREAL
\* target and the osculating-orbit model for a NON_SIDEREAL one, and for
\* neither of the two types no model.
C4_ModelMatchesType ==
    instance # Unbound =>
        /\ target.type = PyStr(SIDEREAL) =>
              instance = Star(target.ra, target.dec, target.pm_ra, target.pm_dec,
                              target.epoch, target.parallax)
        /\ target.type = PyStr(NON_SIDEREAL) =>
              instance = OsculatingElements(target.eccentricity, target.inclination,
                                            target.lng_asc_node)
        /\ SupportedType => instance # PyNone

\* C5: a call of get_visibility with interval <= 0 or with start_time after
\* end_time ends by raising, never by completing normally.
C5_InputErrorsRaise ==
    (Finished /\ (args.interval <= 0 \/ args.start_time > args.end_time)) =>
        pc = "raised"

\* C6: for every target type, the field list as_dict selects contains the
\* four identity fields and no field outside the list declared for the type.
DeclaredFieldList(type) ==
    CASE type = PyStr(SIDEREAL) -> SIDEREAL_FIELDS
      [] type = PyStr(NON_SIDEREAL) -> NON_SIDEREAL_FIELDS
      [] OTHER -> GLOBAL_TARGET_FIELDS

C6_FieldSubset ==
    LET selected == Range(FieldsForType(target.type))
    IN  /\ {"identifier", "name", "designation", "type"} \subseteq selected
        /\ selected \subseteq Range(DeclaredFieldList(target.type))
        /\ dict_result.kind = "dict" =>
              Range(Keys(dict_result.items)) \subseteq Range(DeclaredFieldList(target.type))

C6_Witness ==
    /\ dict_result.kind = "dict"
    /\ ~SupportedType
    /\ Range(Keys(dict_result.items)) = {"identifier", "name", "designation", "type"}

\* C7 as stated: the keys of the mapping as_dict returns are exactly the
\* names of the selected field list, in the order of that list, each mapped
\* to the record's current value.
C7_KeysInListOrder ==
    dict_result.kind = "dict" =>
        /\ Keys(dict_result.items) = FieldsForType(target.type)
        /\ \A i \in DOMAIN dict_result.items :
              dict_result.items[i][2] = target[dict_result.items[i][1]]

\* C7 as amended: the keys of the mapping as_dict returns are exactly the
\* names of the selected field list, none extra, none missing, none twice;
\* they appear in the order in which the Target model declares its fields
\* (identifier, name, type, designation, then the parameters); each is
\* mapped to the record's current value, None included.
C7_KeysInDeclarationOrder ==
    dict_result.kind = "dict" =>
        LET d == dict_result.items
        IN  /\ Range(Keys(d)) = Range(FieldsForType(target.type))
            /\ Len(d) = Len(FieldsForType(target.type))
            /\ \A i, j \in DOMAIN d :
                  i < j => IndexOf(ConcreteFields, d[i][1]) < IndexOf(ConcreteFields, d[j][1])
            /\ \A i \in DOMAIN d : d[i][2] = target[d[i][1]]

C7_Witness ==
    /\ dict_result.kind = "dict"
    /\ target.type = PyStr(SIDEREAL)
    /\ target.ra = PyNone
    /\ Keys(dict_result.items) # FieldsForType(target.type)
    /\ \E i \in DOMAIN dict_result.items : dict_result.items[i] = <<"ra", PyNone>>

\* C8: the field list of a type holds the identity fields and every
\* parameter of that type: the SIDEREAL list every sidereal parameter, the
\* NON_SIDEREAL list every orbital parameter, and the two type-specific
\* parts share no field.
C8_ListsHoldAllParameters ==
    LET selected == Range(FieldsForType(target.type))
        identity == Range(GLOBAL_TARGET_FIELDS)
    IN  /\ identity \subseteq selected
        /\ target.type = PyStr(SIDEREAL) =>
              Range(SiderealParameterFields) \subseteq selected
        /\ target.type = PyStr(NON_SIDEREAL) =>
              Range(NonSiderealParameterFields) \subseteq selected
        /\ (Range(SIDEREAL_FIELDS) \ identity) \cap (Range(NON_SIDEREAL_FIELDS) \ identity) = {}

\* C9: two calls of get_visibility with the same arguments have the same
\* outcome (what is printed, and the value returned or the exception
\* raised), and no step changes the target record or the site registry.
C9_RepeatableCalls ==
    /\ []((Finished /\ prev # NoCall) => Outcome = prev)
    /\ [][target' = target /\ registry' = registry]_vars

C9_Witness ==
    /\ Finished
    /\ prev # NoCall
    /\ prev.status = "raised"
    /\ Outcome = prev
    /\ AllSites(registry) # <<>>

\* C10: a call of get_visibility on a target of a supported type with a
\* positive interval returns after visiting every site of every facility
\* once, having produced (number of sites) x (number of samples) results.
C10_VisitsEverySite ==
    (Finished /\ SupportedType /\ args.interval > 0) =>
        /\ pc = "returned"
        /\ [i \in DOMAIN printed |-> <<printed[i].facility, printed[i].site>>]
              = [i \in DOMAIN AllSites(registry) |->
                    <<AllSites(registry)[i].facility, AllSites(registry)[i].site>>]
        /\ CountRows(printed, 1) = Len(AllSites(registry)) * NumSamples(args.interval)

====
